---- MODULE Spec2Model ----
(***************************************************************************)
(* The streaming chat of rag-chat's frontend: chat.send                    *)
(* (src/frontend/src/api/index.ts), the async generator that decodes the   *)
(* response stream into deltas, and ChatPage                               *)
(* (src/frontend/src/pages/Logs/index.tsx), the component that sends a     *)
(* message, shows the growing answer and reloads the conversation.         *)
(*                                                                         *)
(* Text is a sequence of code points, the response body a sequence of      *)
(* bytes.  One action is one task of the event loop: a user event or the   *)
(* settling of an awaited promise, the microtasks that follow it, React's  *)
(* render and the effects whose dependencies changed.                      *)
(***************************************************************************)
EXTENDS Integers, Sequences, FiniteSets, TLC

VARIABLES
    conversationId,          \* useParams().conversationId: "undefined" or a conversation
    input,                   \* useState('') input
    messages,                \* useState<Message[]>([])
    isStreaming,             \* useState(false)
    streamingContent,        \* useState('')
    loadedConversationIdRef, \* useRef<string | null>(null): "null" or a conversation
    queryData,               \* react-query cache of ['conversation', id]: the data of each key
    db,                      \* the server's record of each conversation
    now,                     \* Date.now()
    pc,                      \* where the running sendMessage call is suspended
    callConversationId,      \* conversationId captured by the running call's closure
    userMessageId,           \* userMessage.id of the running call
    messageContent,          \* messageContent of the running call
    fullContent,             \* fullContent of the running call
    sent,                    \* the lines the server wrote into the response body
    wire,                    \* bytes of the response body not yet read
    decoder,                 \* TextDecoder state carried by decode(value, {stream: true})
    buffer,                  \* chat.send's buffer
    gen,                     \* chat.send: "none", "fetch", "read", "done", "thrown"
    yielded,                 \* the values chat.send has yielded, in order
    response,                \* the Response fetch resolved with
    error,                   \* the error chat.send has thrown
    hist                     \* bookkeeping of the run, read by the properties only

vars == <<conversationId, input, messages, isStreaming, streamingContent,
          loadedConversationIdRef, queryData, db, now, pc, callConversationId,
          userMessageId, messageContent, fullContent, sent, wire, decoder, buffer,
          gen, yielded, response, error, hist>>

pageVars == <<conversationId, input, messages, isStreaming, streamingContent,
              loadedConversationIdRef, queryData, db, now, pc, callConversationId,
              userMessageId, messageContent, fullContent>>

\* ------------------------------------------------------------------ bounds

MaxLines == 3       \* lines in one response body
MaxChunk == 3       \* longest chunk that is not the whole rest of the body
Epoch == 100        \* Date.now() when the page is mounted

\* -------------------------------------------------------------------- text

Min(a, b) == IF a < b THEN a ELSE b

\* the element of a one-element set: `Only({F(x) : x \in {e}})` is F(e) with e
\* evaluated once
Only(S) == CHOOSE x \in S : TRUE

NL == 10            \* '\n'

\* 'data: '
DataPrefix == <<100, 97, 116, 97, 58, 32>>

\* '[DONE]'
DoneText == <<91, 68, 79, 78, 69, 93>>

\* String(undefined), what `fullContent += chunk` appends for an undefined chunk
UndefinedText == <<117, 110, 100, 101, 102, 105, 110, 101, 100>>

StartsWith(s, p) == Len(s) >= Len(p) /\ SubSeq(s, 1, Len(p)) = p

Slice(s, n) == SubSeq(s, n + 1, Len(s))

\* String.prototype.split('\n'): the pieces between the newlines, at least one.
\* The pieces of s[lo..hi] are those of its two halves, the last piece of the
\* left half continued by the first piece of the right half.
JoinPieces(l, r) == SubSeq(l, 1, Len(l) - 1) \o <<l[Len(l)] \o r[1]>> \o Tail(r)

RECURSIVE SplitRange(_, _, _)
SplitRange(s, lo, hi) ==
    IF lo > hi THEN <<<<>>>>
    ELSE IF lo = hi THEN (IF s[lo] = NL THEN <<<<>>, <<>>>> ELSE <<<<s[lo]>>>>)
    ELSE Only({JoinPieces(l, r) :
                 <<l, r>> \in {<<SplitRange(s, lo, (lo + hi) \div 2),
                                 SplitRange(s, ((lo + hi) \div 2) + 1, hi)>>}})

Split(text) == Only({SplitRange(s, 1, Len(s)) : s \in {text}})

\* ------------------------------------------------------------ TextDecoder
\* new TextDecoder() is UTF-8; decode(value, {stream: true}) keeps the bytes of
\* an unfinished character for the next call.  need = continuation bytes still
\* missing, cp = the code point collected so far.

Replacement == 65533

DecoderInit == [need |-> 0, cp |-> 0]

IsContinuation(b) == b >= 128 /\ b <= 191

DecodeLead(b) ==
    IF b < 128 THEN [st |-> DecoderInit, out |-> <<b>>]
    ELSE IF b >= 194 /\ b <= 223 THEN [st |-> [need |-> 1, cp |-> b - 192], out |-> <<>>]
    ELSE IF b >= 224 /\ b <= 239 THEN [st |-> [need |-> 2, cp |-> b - 224], out |-> <<>>]
    ELSE IF b >= 240 /\ b <= 244 THEN [st |-> [need |-> 3, cp |-> b - 240], out |-> <<>>]
    ELSE [st |-> DecoderInit, out |-> <<Replacement>>]

DecodeByte(st, b) ==
    IF st.need = 0 THEN DecodeLead(b)
    ELSE IF IsContinuation(b)
    THEN LET cp == st.cp * 64 + (b - 128) IN
         IF st.need = 1 THEN [st |-> DecoderInit, out |-> <<cp>>]
         ELSE [st |-> [need |-> st.need - 1, cp |-> cp], out |-> <<>>]
    ELSE LET r == DecodeLead(b) IN [st |-> r.st, out |-> <<Replacement>> \o r.out]

\* decoder.decode(value, { stream: true }): the bytes lo..hi in order, the
\* right half decoded from the state the left half ends in.
RECURSIVE DecodeRange(_, _, _, _)
DecodeRange(st, bytes, lo, hi) ==
    IF lo > hi THEN [st |-> st, out |-> <<>>]
    ELSE IF lo = hi THEN DecodeByte(st, bytes[lo])
    ELSE Only({[st |-> r.st, out |-> l.out \o r.out] :
                 <<l, r>> \in
                     {<<l, DecodeRange(l.st, bytes, ((lo + hi) \div 2) + 1, hi)>> :
                         l \in {DecodeRange(st, bytes, lo, (lo + hi) \div 2)}}})

Decode(st, value) == Only({DecodeRange(st, bytes, 1, Len(bytes)) : bytes \in {value}})

\* --------------------------------------------------------------- JSON.parse
\* JSON.parse on the payloads a response line can carry here: an object whose
\* only member is a string "content" free of escapes, the empty object, null;
\* white space around the value is allowed; every other text is a SyntaxError.

\* '{"content":"'
ContentOpen == <<123, 34, 99, 111, 110, 116, 101, 110, 116, 34, 58, 34>>

\* '"}'
ContentClose == <<34, 125>>

\* '{}'
EmptyObjectText == <<123, 125>>

\* 'null'
NullText == <<110, 117, 108, 108>>

IsJsonSpace(c) == c \in {32, 9, 10, 13}

RECURSIVE TrimLeft(_)
TrimLeft(s) == IF s # <<>> /\ IsJsonSpace(s[1]) THEN TrimLeft(Tail(s)) ELSE s

RECURSIVE TrimRight(_)
TrimRight(s) ==
    IF s # <<>> /\ IsJsonSpace(s[Len(s)]) THEN TrimRight(SubSeq(s, 1, Len(s) - 1)) ELSE s

\* a character that may stand unescaped inside a JSON string
IsPlainChar(c) == c >= 32 /\ c # 34 /\ c # 92

EndsWith(s, p) == Len(s) >= Len(p) /\ SubSeq(s, Len(s) - Len(p) + 1, Len(s)) = p

JsonParse(data) ==
    LET t == TrimRight(TrimLeft(data))
        body == SubSeq(t, Len(ContentOpen) + 1, Len(t) - Len(ContentClose))
    IN  IF /\ Len(t) >= Len(ContentOpen) + Len(ContentClose)
           /\ StartsWith(t, ContentOpen)
           /\ EndsWith(t, ContentClose)
           /\ \A i \in 1..Len(body) : IsPlainChar(body[i])
        THEN [kind |-> "object", has |-> TRUE, content |-> body]
        ELSE IF t = EmptyObjectText THEN [kind |-> "object", has |-> FALSE, content |-> <<>>]
        ELSE IF t = NullText THEN [kind |-> "null", has |-> FALSE, content |-> <<>>]
        ELSE [kind |-> "SyntaxError", has |-> FALSE, content |-> <<>>]

\* ---------------------------------------------------------------- chat.send
\* A yielded value is a string or undefined.
Str(text) == [defined |-> TRUE, text |-> text]
Undefined == [defined |-> FALSE, text |-> <<>>]

\* `yield parsed.content` inside try/catch: reading .content of null throws a
\* TypeError, which the catch swallows like the SyntaxError of JSON.parse; an
\* object without the member yields undefined.
YieldOf(parsed) ==
    IF parsed.kind = "object"
    THEN <<IF parsed.has THEN Str(parsed.content) ELSE Undefined>>
    ELSE <<>>

\* C5, mutant of LineStep: a payload that yields nothing ends the generator, as
\* it would without the try/catch around JSON.parse
LineStepAborting(line) ==
    IF ~StartsWith(line, DataPrefix) THEN [ret |-> FALSE, out |-> <<>>]
    ELSE LET data == Slice(line, 6) IN
         IF data = DoneText THEN [ret |-> TRUE, out |-> <<>>]
         ELSE [ret |-> YieldOf(JsonParse(data)) = <<>>, out |-> YieldOf(JsonParse(data))]

\* The body of `for (const line of lines)` for one line.
LineStep(line) ==
    IF ~StartsWith(line, DataPrefix) THEN [ret |-> FALSE, out |-> <<>>]
    ELSE LET data == Slice(line, 6) IN
         IF data = DoneText THEN [ret |-> TRUE, out |-> <<>>]
         ELSE [ret |-> FALSE, out |-> YieldOf(JsonParse(data))]

\* `for (const line of lines)`: stops at the first line that returns.
RECURSIVE LinesFrom(_, _, _)
LinesFrom(lines, i, out) ==
    IF i > Len(lines) THEN [ret |-> FALSE, out |-> out]
    ELSE Only({IF r.ret THEN [ret |-> TRUE, out |-> out]
               ELSE LinesFrom(lines, i + 1, o) :
                 <<r, o>> \in {<<r, out \o r.out>> : r \in {LineStep(lines[i])}}})

\* C3, mutant of PopBuffer: the unfinished line is thrown away, `buffer = ''`
PopBufferEmpty(parts) == <<>>

\* `buffer = lines.pop() || ''`
PopBuffer(parts) == parts[Len(parts)]

\* One turn of `while (true)` after reader.read() gave a chunk.
\* the lines of one turn: `lines` after the pop
LinesOf(parts) == SubSeq(parts, 1, Len(parts) - 1)

ReadTurn(st, buf, value) ==
    Only({[decoder |-> d.st, buffer |-> PopBuffer(parts), ret |-> r.ret, out |-> r.out] :
            <<d, parts, r>> \in
                {<<d, parts, LinesFrom(lines, 1, <<>>)>> :
                    <<d, parts, lines>> \in
                        {<<d, parts, LinesOf(parts)>> :
                            <<d, parts>> \in
                                {<<d, Split(buf \o d.out)>> : d \in {Decode(st, value)}}}}})

\* ------------------------------------------------- the response that failed
\* Lines 95-101: a response that is not ok is read as JSON and its detail
\* thrown; a response without a body throws too.

\* 'Chat request failed'
ChatFailedText ==
    <<67, 104, 97, 116, 32, 114, 101, 113, 117, 101, 115, 116, 32, 102, 97, 105, 108, 101, 100>>

\* 'No response body'
NoBodyText == <<78, 111, 32, 114, 101, 115, 112, 111, 110, 115, 101, 32, 98, 111, 100, 121>>

\* '{"detail":"'
DetailOpen == <<123, 34, 100, 101, 116, 97, 105, 108, 34, 58, 34>>

\* the message of the engine's SyntaxError and TypeError, not the code's choice:
\* 'Unexpected token', 'Cannot read properties of null'
SyntaxErrorText ==
    <<85, 110, 101, 120, 112, 101, 99, 116, 101, 100, 32, 116, 111, 107, 101, 110>>

TypeErrorText ==
    <<67, 97, 110, 110, 111, 116, 32, 114, 101, 97, 100, 32, 112, 114, 111, 112, 101, 114,
      116, 105, 101, 115, 32, 111, 102, 32, 110, 117, 108, 108>>

\* response.json() on the bodies a failed response can carry here: an object
\* whose only member is a string "detail" free of escapes, the empty object,
\* null; every other text rejects with a SyntaxError.
ResponseJson(text) ==
    LET t == TrimRight(TrimLeft(text))
        body == SubSeq(t, Len(DetailOpen) + 1, Len(t) - Len(ContentClose))
    IN  IF /\ Len(t) >= Len(DetailOpen) + Len(ContentClose)
           /\ StartsWith(t, DetailOpen)
           /\ EndsWith(t, ContentClose)
           /\ \A i \in 1..Len(body) : IsPlainChar(body[i])
        THEN [kind |-> "object", has |-> TRUE, detail |-> body]
        ELSE IF t = EmptyObjectText THEN [kind |-> "object", has |-> FALSE, detail |-> <<>>]
        ELSE IF t = NullText THEN [kind |-> "null", has |-> FALSE, detail |-> <<>>]
        ELSE [kind |-> "SyntaxError", has |-> FALSE, detail |-> <<>>]

NoError == [name |-> "none", message |-> <<>>]

\* lines 96-97: `error.detail || 'Chat request failed'`; an undefined or empty
\* detail is falsy
FailureError(text) ==
    LET parsed == ResponseJson(text) IN
    IF parsed.kind = "SyntaxError" THEN [name |-> "SyntaxError", message |-> SyntaxErrorText]
    ELSE IF parsed.kind = "null" THEN [name |-> "TypeError", message |-> TypeErrorText]
    ELSE [name |-> "Error",
          message |-> IF parsed.has /\ parsed.detail # <<>> THEN parsed.detail
                      ELSE ChatFailedText]

\* The bodies of a response that is not ok: "detail" is {"detail":"no"},
\* "empty" is {}, "html" is <html>, "null" is null.
FailureKinds == {"detail", "empty", "html", "null"}

FailureText(k) ==
    CASE k = "detail" -> DetailOpen \o <<110, 111>> \o ContentClose
      [] k = "empty"  -> EmptyObjectText
      [] k = "html"   -> <<60, 104, 116, 109, 108, 62>>
      [] k = "null"   -> NullText

\* status: "none" before fetch resolves, "ok" or "failed"; body: "stream",
\* "nobody" (response.body is null) or the kind of the failure's body
NoResponse == [status |-> "none", body |-> "none"]

StreamResponse == [status |-> "ok", body |-> "stream"]

\* ------------------------------------------------------- the response body
\* The lines a server can write.  "a" and "ni" are content frames (the second
\* one a three-byte character), "done" the terminal frame, "no" a frame that
\* is not JSON, "blank" an empty separator line, "obj" a JSON object without
\* content.

LineKinds == {"a", "ni", "done", "no", "blank", "obj"}

ContentKinds == {"a", "ni"}

ContentOf(k) == IF k = "a" THEN <<97>> ELSE <<20320>>

LineText(k) ==
    CASE k \in ContentKinds -> DataPrefix \o ContentOpen \o ContentOf(k) \o ContentClose
      [] k = "done"  -> DataPrefix \o DoneText
      [] k = "no"    -> DataPrefix \o <<110, 111>>
      [] k = "blank" -> <<>>
      [] k = "obj"   -> DataPrefix \o EmptyObjectText

Utf8(cp) ==
    IF cp < 128 THEN <<cp>>
    ELSE IF cp < 2048 THEN <<192 + (cp \div 64), 128 + (cp % 64)>>
    ELSE <<224 + (cp \div 4096), 128 + ((cp \div 64) % 64), 128 + (cp % 64)>>

RECURSIVE Utf8Text(_)
Utf8Text(s) == IF s = <<>> THEN <<>> ELSE Utf8(Head(s)) \o Utf8Text(Tail(s))

\* every line is written with its newline
RECURSIVE EncodeLines(_)
EncodeLines(ks) ==
    IF ks = <<>> THEN <<>>
    ELSE Utf8Text(LineText(Head(ks))) \o <<NL>> \o EncodeLines(Tail(ks))

Bodies == UNION {[1..n -> LineKinds] : n \in 0..MaxLines}

\* the sizes reader.read() can deliver from what is left of the body
ChunkSizes(w) == (1..Min(Len(w), MaxChunk)) \cup (IF w = <<>> THEN {} ELSE {Len(w)})

\* ------------------------------------------------------- chat.send, alone
\* chat.send driven by a consumer that only collects what is yielded: the body
\* is any sequence of lines, cut into chunks at any byte.

\* requests: chat requests issued so far; cycleRequests: requests issued by the
\* calls now running; rejected: why the call of sendMessage just made returned
\* at once; preSend: the message list when the running call was made; switched:
\* the route changed while the last call was running; outcome: how the last
\* call ended, until the next request or route change; closed: reader.read()
\* of the last call resolved with done; midChar, midPrefix, midLine: where
\* chunks of the body have ended.
HistInit ==
    [requests |-> 0, cycleRequests |-> 0,
     rejected |-> "none", preSend |-> <<>>, switched |-> FALSE, outcome |-> "none",
     closed |-> FALSE,
     midChar |-> FALSE, midPrefix |-> FALSE, midLine |-> FALSE]

\* where a chunk ended: inside a character, inside 'data: ', inside a line
CutNotes(h, st, buf) ==
    [h EXCEPT !.midChar = @ \/ st.need > 0,
              !.midPrefix = @ \/ (buf # <<>> /\ Len(buf) < Len(DataPrefix)
                                    /\ StartsWith(DataPrefix, buf)),
              !.midLine = @ \/ Len(buf) > Len(DataPrefix)]

PageInit ==
    /\ conversationId = "undefined"
    /\ input = <<>>
    /\ messages = <<>>
    /\ isStreaming = FALSE
    /\ streamingContent = <<>>
    /\ loadedConversationIdRef = "null"
    /\ queryData = [c \in {"A", "B"} |-> [loaded |-> FALSE, messages |-> <<>>]]
    /\ db = [c \in {"A", "B"} |->
                <<[id |-> IF c = "A" THEN 1 ELSE 2, conversation_id |-> c,
                   role |-> "assistant", content |-> <<IF c = "A" THEN 97 ELSE 98>>]>>]
    /\ now = Epoch
    /\ pc = "idle"
    /\ callConversationId = "undefined"
    /\ userMessageId = 0
    /\ messageContent = <<>>
    /\ fullContent = <<>>

DecoderSpecInit ==
    /\ PageInit
    /\ sent = <<>>
    /\ wire = <<>>
    /\ decoder = DecoderInit
    /\ buffer = <<>>
    /\ gen = "fetch"
    /\ yielded = <<>>
    /\ response = NoResponse
    /\ error = NoError
    /\ hist = HistInit

\* fetch resolves with an ok response that has a body: lines 95-104
GenResponse ==
    /\ gen = "fetch"
    /\ \E body \in Bodies :
         /\ sent' = body
         /\ wire' = EncodeLines(body)
    /\ response' = StreamResponse
    /\ gen' = "read"
    /\ UNCHANGED <<pageVars, decoder, buffer, yielded, error, hist>>

\* fetch resolves with a response that is not ok: lines 95-98
GenFailure ==
    /\ gen = "fetch"
    /\ \E k \in FailureKinds :
         /\ response' = [status |-> "failed", body |-> k]
         /\ error' = FailureError(FailureText(k))
    /\ gen' = "thrown"
    /\ UNCHANGED <<pageVars, sent, wire, decoder, buffer, yielded, hist>>

\* fetch resolves with an ok response without a body: lines 100-101
GenNoBody ==
    /\ gen = "fetch"
    /\ response' = [status |-> "ok", body |-> "nobody"]
    /\ error' = [name |-> "Error", message |-> NoBodyText]
    /\ gen' = "thrown"
    /\ UNCHANGED <<pageVars, sent, wire, decoder, buffer, yielded, hist>>

\* reader.read() resolves with a chunk; the loop body runs to the next read or
\* to the return at '[DONE]'.
GenRead ==
    /\ gen = "read"
    /\ wire # <<>>
    /\ \E n \in ChunkSizes(wire) :
         LET r == ReadTurn(decoder, buffer, SubSeq(wire, 1, n)) IN
         /\ wire' = Slice(wire, n)
         /\ decoder' = r.decoder
         /\ buffer' = r.buffer
         /\ yielded' = yielded \o r.out
         /\ gen' = IF r.ret THEN "done" ELSE "read"
         /\ hist' = IF r.ret \/ n = Len(wire) THEN hist
                    ELSE CutNotes(hist, r.decoder, r.buffer)
    /\ UNCHANGED <<pageVars, sent, response, error>>

\* C27, mutant of GenClose: what is left in the buffer is handled as a last
\* line before the generator ends
GenCloseFlushing ==
    /\ gen = "read"
    /\ wire = <<>>
    /\ gen' = "done"
    /\ yielded' = yielded \o LineStep(buffer).out
    /\ buffer' = <<>>
    /\ UNCHANGED <<pageVars, sent, wire, decoder, response, error, hist>>

\* reader.read() resolves with done: `if (done) break`, the generator ends.
GenClose ==
    /\ gen = "read"
    /\ wire = <<>>
    /\ gen' = "done"
    /\ UNCHANGED <<pageVars, sent, wire, decoder, buffer, yielded, response, error, hist>>

DecoderNext == GenResponse \/ GenFailure \/ GenNoBody \/ GenRead \/ GenClose

SpecDecoder == DecoderSpecInit /\ [][DecoderNext]_vars

\* --- chat.send on a body whose last line is written without its newline

EncodeOpen(ks) == SubSeq(EncodeLines(ks), 1, Len(EncodeLines(ks)) - 1)

OpenResponse == [status |-> "ok", body |-> "open"]

\* fetch resolves with an ok response whose body ends inside a line
GenResponseOpen ==
    /\ gen = "fetch"
    /\ \E body \in Bodies \ {<<>>} :
         /\ sent' = body
         /\ wire' = EncodeOpen(body)
    /\ response' = OpenResponse
    /\ gen' = "read"
    /\ UNCHANGED <<pageVars, decoder, buffer, yielded, error, hist>>

OpenNext == GenResponseOpen \/ GenRead \/ GenClose

SpecOpen == DecoderSpecInit /\ [][OpenNext]_vars

\* ------------------------------------------------------------------ ChatPage

Convs == {"A", "B"}

MaxSends == 1       \* calls of sendMessage that run to their return in one run
MaxTicks == 0       \* milliseconds the clock advances in one run
PageChunk == 24     \* a chunk is the next PageChunk bytes or the whole rest

\* what the input box can hold: '', ' ', ' h'
Inputs == {<<>>, <<32>>, <<32, 104>>}

\* the response bodies of a chat request: two frames and the terminal frame; a
\* frame and an object without content, with no terminal frame; the terminal
\* frame alone; two lines that are not frames; nothing
PageBodies == {<<"a", "ni", "done">>, <<"a", "obj">>, <<"done">>, <<"no", "blank">>, <<>>}

\* String.prototype.trim()
IsWhiteSpace(c) == c \in {32, 9, 10, 13}

RECURSIVE TrimStart(_)
TrimStart(s) == IF s # <<>> /\ IsWhiteSpace(s[1]) THEN TrimStart(Tail(s)) ELSE s

RECURSIVE TrimEnd(_)
TrimEnd(s) ==
    IF s # <<>> /\ IsWhiteSpace(s[Len(s)]) THEN TrimEnd(SubSeq(s, 1, Len(s) - 1)) ELSE s

Trim(s) == TrimEnd(TrimStart(s))

Message(id, c, role, content) ==
    [id |-> id, conversation_id |-> c, role |-> role, content |-> content]

\* `prev.filter(m => m.id !== userMessage.id)`
WithoutId(list, id) == SelectSeq(list, LAMBDA m : m.id # id)

\* C18, mutant of Consume: `fullContent = chunk`, the chunk replaces the content
ConsumeLast(content, out) ==
    IF out = <<>> THEN content
    ELSE IF out[Len(out)].defined THEN out[Len(out)].text ELSE UndefinedText

\* `fullContent += chunk` for every chunk the generator yields in one turn
RECURSIVE Consume(_, _)
Consume(content, out) ==
    IF out = <<>> THEN content
    ELSE Consume(content \o (IF Head(out).defined THEN Head(out).text ELSE UndefinedText),
                 Tail(out))

\* --- the effects, run after the render that follows a change of their
\* dependencies.  v is the page after the handler: conv, streaming, messages,
\* content, ref, data (the query's data for conv).

\* conversationDetail of the render: the query is disabled without an id
DetailOf(data, conv) ==
    IF conv \in Convs THEN data[conv] ELSE [loaded |-> FALSE, messages |-> <<>>]

\* C26, mutant of LoadMessagesEffect: `if (conversationDetail?.messages)`, the
\* detail is loaded whenever it arrives
LoadMessagesEffectUnguarded(v) ==
    IF DetailOf(v.data, v.conv).loaded
    THEN [v EXCEPT !.messages = DetailOf(v.data, v.conv).messages,
                   !.ref = IF v.conv = "undefined" THEN "null" ELSE v.conv]
    ELSE v

LoadMessagesEffect(v) ==
    IF DetailOf(v.data, v.conv).loaded /\ ~v.streaming /\ v.ref # v.conv
    THEN [v EXCEPT !.messages = DetailOf(v.data, v.conv).messages,
                   !.ref = IF v.conv = "undefined" THEN "null" ELSE v.conv]
    ELSE v

SwitchConversationEffect(v) ==
    IF v.conv # v.ref
    THEN [v EXCEPT !.messages = <<>>, !.content = <<>>, !.ref = "null"]
    ELSE v

\* the effects in the order the component declares them
Effects(v, loadDeps, switchDeps) ==
    Only({IF switchDeps THEN SwitchConversationEffect(w) ELSE w :
            w \in {IF loadDeps THEN LoadMessagesEffect(v) ELSE v}})

View(conv, streaming, msgs, content, ref, data) ==
    [conv |-> conv, streaming |-> streaming, messages |-> msgs, content |-> content,
     ref |-> ref, data |-> data]

\* the page after the render and the effects
Commit(v) ==
    /\ messages' = v.messages
    /\ streamingContent' = v.content
    /\ loadedConversationIdRef' = v.ref

\* what the chat area shows of the state (lines 694-811): the messages, the
\* answer while it streams or the three dots before its first delta, the input
\* box and the send button; no element shows an error
Rendered ==
    [messages |-> messages,
     streaming |-> IF isStreaming THEN streamingContent ELSE <<>>,
     typing |-> isStreaming /\ streamingContent = <<>>,
     input |-> input,
     sendDisabled |-> (Trim(input) = <<>> \/ isStreaming),
     error |-> <<>>]

\* --- the server (not part of the frontend): it stores the user message of a
\* chat request and the answer it streamed, the content of its content frames
\* up to the terminal frame, under new ids.

RECURSIVE BeforeDone(_)
BeforeDone(ks) ==
    IF ks = <<>> \/ Head(ks) = "done" THEN <<>> ELSE <<Head(ks)>> \o BeforeDone(Tail(ks))

RECURSIVE ContentsOf(_)
ContentsOf(ks) ==
    IF ks = <<>> THEN <<>>
    ELSE (IF Head(ks) \in ContentKinds THEN <<ContentOf(Head(ks))>> ELSE <<>>)
         \o ContentsOf(Tail(ks))

RECURSIVE Concat(_)
Concat(ss) == IF ss = <<>> THEN <<>> ELSE Head(ss) \o Concat(Tail(ss))

AnswerOf(body) == Concat(ContentsOf(BeforeDone(body)))

NextId(d) == 1 + Len(d["A"]) + Len(d["B"])

ServerStore(d, c, text, body) ==
    [d EXCEPT ![c] = @ \o <<Message(NextId(d), c, "user", text),
                            Message(NextId(d) + 1, c, "assistant", AnswerOf(body))>>]

\* --- sendMessage

\* C2, mutant of SendGuard: the call does not look at isStreaming
SendGuardUngated(in, conv, streaming) == Trim(in) = <<>> \/ conv = "undefined"

\* C24, mutant of SendGuard: a gate for each conversation, closed only in the
\* conversation of the running send
SendGuardPerConversation(in, conv, streaming) ==
    Trim(in) = <<>> \/ conv = "undefined" \/ (streaming /\ conv = callConversationId)

\* C8, mutant of SendGuard: the input is tested without trim()
SendGuardUntrimmed(in, conv, streaming) == in = <<>> \/ conv = "undefined" \/ streaming

\* line 555: TRUE when the call returns at once
SendGuard(in, conv, streaming) == Trim(in) = <<>> \/ conv = "undefined" \/ streaming

PageChunkSizes(w) == {Min(Len(w), PageChunk), Len(w)}

\* what Date.now() can return: the clock never runs backwards
Clock == now..(Epoch + MaxTicks)

Init ==
    /\ PageInit
    /\ sent = <<>>
    /\ wire = <<>>
    /\ decoder = DecoderInit
    /\ buffer = <<>>
    /\ gen = "none"
    /\ yielded = <<>>
    /\ response = NoResponse
    /\ error = NoError
    /\ hist = HistInit

\* C23, mutant of Navigate: the switch effect calls `reader.cancel()`, the rest
\* of the body is dropped
NavigateAborting(c) ==
    /\ c # conversationId
    /\ conversationId' = c
    /\ Commit(Effects(View(c, isStreaming, messages, streamingContent,
                           loadedConversationIdRef, queryData), TRUE, TRUE))
    /\ wire' = IF pc = "stream" THEN <<>> ELSE wire
    /\ hist' = [hist EXCEPT !.switched = (pc # "idle"), !.rejected = "none",
                             !.outcome = "none"]
    /\ UNCHANGED <<input, isStreaming, queryData, db, now, pc, callConversationId,
                   userMessageId, messageContent, fullContent, sent, decoder,
                   buffer, gen, yielded, response, error>>

\* the route changes: the user opens another conversation (a route without a
\* conversation is left at once by the redirect of lines 489-495)
Navigate(c) ==
    /\ c # conversationId
    /\ conversationId' = c
    /\ Commit(Effects(View(c, isStreaming, messages, streamingContent,
                           loadedConversationIdRef, queryData), TRUE, TRUE))
    /\ hist' = [hist EXCEPT !.switched = (pc # "idle"), !.rejected = "none",
                             !.outcome = "none"]
    /\ UNCHANGED <<input, isStreaming, queryData, db, now, pc, callConversationId,
                   userMessageId, messageContent, fullContent, sent, wire, decoder,
                   buffer, gen, yielded, response, error>>

\* the query of the open conversation gets the server's record
DetailFetched ==
    /\ conversationId \in Convs
    /\ queryData[conversationId] # [loaded |-> TRUE, messages |-> db[conversationId]]
    /\ queryData' = [queryData EXCEPT
                       ![conversationId] = [loaded |-> TRUE, messages |-> db[conversationId]]]
    /\ Commit(Effects(View(conversationId, isStreaming, messages, streamingContent,
                           loadedConversationIdRef, queryData'), TRUE, FALSE))
    /\ hist' = [hist EXCEPT !.rejected = "none"]
    /\ UNCHANGED <<conversationId, input, isStreaming, db, now, pc, callConversationId,
                   userMessageId, messageContent, fullContent, sent, wire, decoder,
                   buffer, gen, yielded, response, error>>

\* onChange of the textarea
SetInput(v) ==
    /\ v # input
    /\ input' = v
    /\ hist' = [hist EXCEPT !.rejected = "none"]
    /\ UNCHANGED <<conversationId, messages, isStreaming, streamingContent,
                   loadedConversationIdRef, queryData, db, now, pc, callConversationId,
                   userMessageId, messageContent, fullContent, sent, wire, decoder,
                   buffer, gen, yielded, response, error>>

\* which of the three conditions of line 555 made the call return
RejectedFor(in, conv) ==
    IF Trim(in) = <<>> THEN "blank" ELSE IF conv = "undefined" THEN "noConversation"
    ELSE "streaming"

\* Enter or the send button: sendMessage up to its first await, in a run of at
\* most n calls that run to their return
SendMessageWithin(n) ==
    IF SendGuard(input, conversationId, isStreaming)
    THEN /\ hist' = [hist EXCEPT !.rejected = RejectedFor(input, conversationId)]
         /\ UNCHANGED <<pageVars, sent, wire, decoder, buffer, gen, yielded, response,
                         error>>
    ELSE /\ hist.requests - hist.cycleRequests < n
         /\ \E t \in Clock :
              /\ now' = t
              /\ Commit(Effects(View(conversationId, TRUE,
                                     Append(messages,
                                            Message(t, conversationId, "user", Trim(input))),
                                     <<>>, loadedConversationIdRef, queryData),
                                isStreaming # TRUE, FALSE))
              /\ userMessageId' = t
         /\ input' = <<>>
         /\ isStreaming' = TRUE
         /\ pc' = "stream"
         /\ callConversationId' = conversationId
         /\ messageContent' = Trim(input)
         /\ fullContent' = <<>>
         /\ gen' = "fetch"
         /\ sent' = <<>>
         /\ wire' = <<>>
         /\ decoder' = DecoderInit
         /\ buffer' = <<>>
         /\ yielded' = <<>>
         /\ response' = NoResponse
         /\ error' = NoError
         /\ hist' = [hist EXCEPT
                       !.requests = @ + 1,
                       !.cycleRequests = @ + 1,
                       !.rejected = "none",
                       !.preSend = messages,
                       !.switched = FALSE,
                       !.outcome = "none",
                       !.closed = FALSE]
         /\ UNCHANGED <<conversationId, queryData, db>>

SendMessage == SendMessageWithin(MaxSends)

\* a send in a run that has room for one more after the first has returned
Resend == SendMessageWithin(MaxSends + 1)

\* fetch resolves with a 2xx response that has a body
ChatResponse ==
    /\ pc = "stream"
    /\ gen = "fetch"
    /\ \E body \in PageBodies :
         /\ sent' = body
         /\ wire' = EncodeLines(body)
         /\ db' = ServerStore(db, callConversationId, messageContent, body)
    /\ response' = StreamResponse
    /\ gen' = "read"
    /\ hist' = [hist EXCEPT !.rejected = "none"]
    /\ UNCHANGED <<conversationId, input, messages, isStreaming, streamingContent,
                   loadedConversationIdRef, queryData, now, pc, callConversationId,
                   userMessageId, messageContent, fullContent, decoder, buffer, yielded,
                   error>>

\* the call has returned: its locals and its generator are gone
Returned(outcome) ==
    /\ pc' = "idle"
    /\ callConversationId' = "undefined"
    /\ userMessageId' = 0
    /\ messageContent' = <<>>
    /\ fullContent' = <<>>
    /\ sent' = <<>>
    /\ wire' = <<>>
    /\ decoder' = DecoderInit
    /\ buffer' = <<>>
    /\ gen' = "none"
    /\ yielded' = <<>>
    /\ response' = NoResponse
    /\ error' = NoError
    /\ hist' = [hist EXCEPT !.cycleRequests = 0, !.rejected = "none",
                            !.preSend = <<>>, !.outcome = outcome]

\* C11, mutant of Caught: no finally block, isStreaming is reset on success only
CaughtHolding(outcome) ==
    /\ isStreaming' = isStreaming
    /\ Commit(Effects(View(conversationId, isStreaming, WithoutId(messages, userMessageId),
                           streamingContent, loadedConversationIdRef, queryData),
                      FALSE, FALSE))
    /\ Returned(outcome)
    /\ UNCHANGED <<conversationId, input, queryData, db, now>>

\* catch and finally of sendMessage
Caught(outcome) ==
    /\ isStreaming' = FALSE
    /\ Commit(Effects(View(conversationId, FALSE, WithoutId(messages, userMessageId),
                           streamingContent, loadedConversationIdRef, queryData),
                      isStreaming # FALSE, FALSE))
    /\ Returned(outcome)
    /\ UNCHANGED <<conversationId, input, queryData, db, now>>

\* chat.send throws: fetch rejects, the status is not 2xx, the response has no
\* body, or reader.read() rejects
ChatThrows ==
    /\ pc = "stream"
    /\ gen \in {"fetch", "read"}
    /\ Caught("chatError")

\* C28, mutant of StreamEnd: `if (fullContent)` around lines 583-593, an empty
\* answer is not appended
StreamEndSkippingEmpty(content) ==
    /\ \E t \in Clock :
          /\ now' = t
          /\ messages' = IF content = <<>> THEN messages
                          ELSE Append(messages,
                                      Message(t + 1, callConversationId, "assistant", content))
    /\ streamingContent' = <<>>
    /\ pc' = "reconcile"
    /\ gen' = "done"

\* lines 583-597: the loop is over, up to the await of conversations.get
StreamEnd(content) ==
    /\ \E t \in Clock :
          /\ now' = t
          /\ messages' = Append(messages,
                                Message(t + 1, callConversationId, "assistant", content))
    /\ streamingContent' = <<>>
    /\ pc' = "reconcile"
    /\ gen' = "done"

\* reader.read() resolves with a chunk: the generator's turn and the loop body
\* of sendMessage for every chunk it yields
StreamRead ==
    /\ pc = "stream"
    /\ gen = "read"
    /\ wire # <<>>
    /\ \E n \in PageChunkSizes(wire) :
         \E r \in {ReadTurn(decoder, buffer, SubSeq(wire, 1, n))} :
         \E content \in {Consume(fullContent, r.out)} :
             /\ wire' = Slice(wire, n)
             /\ decoder' = r.decoder
             /\ buffer' = r.buffer
             /\ yielded' = yielded \o r.out
             /\ fullContent' = content
             /\ IF r.ret
                THEN StreamEnd(content)
                ELSE /\ streamingContent' = IF r.out = <<>> THEN streamingContent
                                            ELSE content
                     /\ UNCHANGED <<messages, pc, gen, now>>
    /\ hist' = [hist EXCEPT !.rejected = "none"]
    /\ UNCHANGED <<conversationId, input, isStreaming, loadedConversationIdRef, queryData,
                   db, callConversationId, userMessageId, messageContent, sent, response,
                   error>>

\* C22, mutant of StreamClose: `if (done) throw new Error(...)`, a body that
\* ends without the terminal frame is an error
StreamCloseThrowing ==
    /\ pc = "stream"
    /\ gen = "read"
    /\ wire = <<>>
    /\ isStreaming' = FALSE
    /\ Commit(Effects(View(conversationId, FALSE, WithoutId(messages, userMessageId),
                           streamingContent, loadedConversationIdRef, queryData),
                      isStreaming # FALSE, FALSE))
    /\ pc' = "idle"
    /\ callConversationId' = "undefined"
    /\ userMessageId' = 0
    /\ messageContent' = <<>>
    /\ fullContent' = <<>>
    /\ sent' = <<>>
    /\ decoder' = DecoderInit
    /\ buffer' = <<>>
    /\ gen' = "none"
    /\ yielded' = <<>>
    /\ hist' = [hist EXCEPT !.cycleRequests = 0, !.rejected = "none", !.preSend = <<>>,
                            !.outcome = "chatError", !.closed = TRUE]
    /\ UNCHANGED <<conversationId, input, queryData, db, now, wire, response, error>>

\* reader.read() resolves with done
StreamClose ==
    /\ pc = "stream"
    /\ gen = "read"
    /\ wire = <<>>
    /\ StreamEnd(fullContent)
    /\ hist' = [hist EXCEPT !.rejected = "none", !.closed = TRUE]
    /\ UNCHANGED <<conversationId, input, isStreaming, loadedConversationIdRef, queryData,
                   db, callConversationId, userMessageId, messageContent, fullContent,
                   sent, wire, decoder, buffer, yielded, response, error>>

\* C21, mutant of ReconcileOk: `setMessages(prev => [...prev, ...messages])`,
\* the record is added to the list
ReconcileOkAppending ==
    /\ pc = "reconcile"
    /\ isStreaming' = FALSE
    /\ Commit(Effects(View(conversationId, FALSE, messages \o db[callConversationId],
                           streamingContent, callConversationId, queryData),
                      isStreaming # FALSE, FALSE))
    /\ Returned("reconciled")
    /\ UNCHANGED <<conversationId, input, queryData, db, now>>

\* conversations.get resolves: lines 598-605 and finally
ReconcileOk ==
    /\ pc = "reconcile"
    /\ isStreaming' = FALSE
    /\ Commit(Effects(View(conversationId, FALSE, db[callConversationId], streamingContent,
                           callConversationId, queryData),
                      isStreaming # FALSE, FALSE))
    /\ Returned("reconciled")
    /\ UNCHANGED <<conversationId, input, queryData, db, now>>

\* conversations.get rejects
ReconcileFails ==
    /\ pc = "reconcile"
    /\ Caught("reconcileError")

Next ==
    \/ \E c \in Convs : Navigate(c)
    \/ DetailFetched
    \/ \E v \in Inputs : SetInput(v)
    \/ SendMessage
    \/ ChatResponse
    \/ ChatThrows
    \/ StreamRead
    \/ StreamClose
    \/ ReconcileOk
    \/ ReconcileFails

Spec == Init /\ [][Next]_vars

\* the page in runs with one more send
NextResend ==
    \/ \E c \in Convs : Navigate(c)
    \/ DetailFetched
    \/ \E v \in Inputs : SetInput(v)
    \/ Resend
    \/ ChatResponse
    \/ ChatThrows
    \/ StreamRead
    \/ StreamClose
    \/ ReconcileOk
    \/ ReconcileFails

SpecResend == Init /\ [][NextResend]_vars

\* the page when every promise a send awaits settles: fetch, each
\* reader.read() and conversations.get.  The awaited promise of a running call
\* is one at a time, so a single fairness condition covers them.
Settles == ChatResponse \/ StreamRead \/ StreamClose \/ ReconcileOk

SpecSettling == Init /\ [][Next]_vars /\ WF_vars(Settles)

\* ------------------------------------------------- properties of chat.send

\* what chat.send yields when the whole body arrives as a single chunk
SingleChunk(body) == ReadTurn(DecoderInit, <<>>, EncodeLines(body)).out

\* C3: however the body is cut into chunks, when the generator has ended the
\* deltas it has yielded are, in order, those it yields when the whole body
\* arrives as one chunk; until then they are the first of them.
ChunkingInvariance ==
    \A whole \in {SingleChunk(sent)} :
        /\ Len(yielded) <= Len(whole)
        /\ yielded = SubSeq(whole, 1, Len(yielded))
        /\ gen = "done" => yielded = whole

\* C3, witness: a body read to its end in chunks that ended inside a character,
\* inside 'data: ' and inside a line, with two deltas yielded
ChunkingInvarianceWitness ==
    /\ gen = "done"
    /\ hist.midChar /\ hist.midPrefix /\ hist.midLine
    /\ Len(yielded) >= 2

\* the lines of a body from the terminal frame on
RECURSIVE FromDone(_)
FromDone(ks) ==
    IF ks = <<>> \/ Head(ks) = "done" THEN ks ELSE FromDone(Tail(ks))

\* the content frames of a body before its terminal frame, as deltas
RECURSIVE ContentDeltas(_)
ContentDeltas(ks) ==
    IF ks = <<>> \/ Head(ks) = "done" THEN <<>>
    ELSE (IF Head(ks) \in ContentKinds THEN <<Str(ContentOf(Head(ks)))>> ELSE <<>>)
         \o ContentDeltas(Tail(ks))

\* C4: when the body holds the terminal frame, the deltas yielded are exactly
\* the contents of the content frames before it, in order, whatever follows it.
SentinelTermination ==
    (gen = "done" /\ FromDone(sent) # <<>>) => yielded = ContentDeltas(sent)

\* the deltas of the well-formed frames of a body before its terminal frame: a
\* content frame gives its content, an object without content gives undefined
\* (see C6); a line without the prefix or with a payload that is not JSON, or
\* not an object, gives nothing
RECURSIVE FrameDeltas(_)
FrameDeltas(ks) ==
    IF ks = <<>> \/ Head(ks) = "done" THEN <<>>
    ELSE (IF Head(ks) \in ContentKinds THEN <<Str(ContentOf(Head(ks)))>>
          ELSE IF Head(ks) = "obj" THEN <<Undefined>> ELSE <<>>)
         \o FrameDeltas(Tail(ks))

\* C5: a line without the prefix or with a payload that cannot be parsed
\* yields nothing and ends nothing: the generator never throws, and when it has
\* ended every frame before the terminal frame has been yielded, in order.
MalformedFrameTolerance ==
    /\ gen = "thrown" => response # StreamResponse
    /\ gen = "done" => yielded = FrameDeltas(sent)

\* C5, witness: a body read to its end whose second line is not a frame or not
\* JSON, between two content frames that were both yielded
MalformedFrameToleranceWitness ==
    /\ gen = "done"
    /\ Len(sent) = 3
    /\ sent[1] \in ContentKinds /\ sent[2] \in {"no", "blank"} /\ sent[3] \in ContentKinds
    /\ yielded = <<Str(ContentOf(sent[1])), Str(ContentOf(sent[3]))>>

\* -------------------------------------------------- properties of ChatPage

\* a step that is a call of sendMessage: it issues a request or returns at once
SendCalled ==
    \/ hist'.requests # hist.requests
    \/ hist'.rejected # "none" /\ hist'.rejected # hist.rejected

\* C1: while another conversation than the one a send was started on is open,
\* neither the end of that send's stream (the append of its assistant message)
\* nor the arrival of its authoritative record changes the visible list.
StaleResultDiscard ==
    [][(/\ conversationId # callConversationId
        /\ \/ pc = "stream" /\ pc' = "reconcile"
           \/ pc = "reconcile" /\ hist'.outcome = "reconciled")
       => messages' = messages]_vars

\* C2: from the call that starts a send until its return exactly one request
\* is outstanding, the call that started it appended exactly one user message,
\* and a further call in the same conversation changes nothing and issues no
\* request.
SingleFlight ==
    [][/\ pc' # "idle" => hist'.cycleRequests = 1
       /\ hist'.requests # hist.requests =>
            /\ hist'.requests = hist.requests + 1
            /\ pc = "idle"
            /\ Len(messages') = Len(messages) + 1
            /\ messages'[Len(messages')].role = "user"
            /\ SubSeq(messages', 1, Len(messages)) = messages
       /\ (pc # "idle" /\ conversationId = callConversationId /\ SendCalled) =>
            /\ hist'.requests = hist.requests
            /\ UNCHANGED <<pageVars, sent, wire, decoder, buffer, gen, yielded, response,
                           error>>]_vars

\* C2, witness: a second call made in the conversation of a running send has
\* returned at once, one request outstanding
SingleFlightWitness ==
    /\ pc # "idle"
    /\ conversationId = callConversationId
    /\ hist.rejected = "streaming"
    /\ hist.cycleRequests = 1
    /\ Len(messages) >= 1

\* C6: a frame without content yields nothing: every yielded value is a
\* string, and what is shown while streaming and the final content of the
\* answer are made of the contents of the content frames only.
NoContentFrameDropped ==
    /\ \A i \in DOMAIN yielded : yielded[i].defined
    /\ pc = "stream" =>
          \E n \in 0..Len(ContentDeltas(sent)) :
              fullContent = Consume(<<>>, SubSeq(ContentDeltas(sent), 1, n))
    /\ pc = "reconcile" => fullContent = Consume(<<>>, ContentDeltas(sent))

\* C7: when the chat request of a send fails and the route did not change
\* meanwhile, the list is again the list before the call, isStreaming is false
\* and a call with non-blank input would be accepted.
RollbackOnFailure ==
    [][(pc = "stream" /\ pc' = "idle" /\ ~hist.switched) =>
          /\ messages' = hist.preSend
          /\ ~isStreaming'
          /\ ~SendGuard(<<104>>, conversationId', isStreaming')]_vars

\* C8: a call made without a conversation, with blank input or while a send is
\* running leaves the list, the streaming content, the input and the phase as
\* they are and issues no request.
GuardClauses ==
    [][(/\ SendCalled
        /\ \/ conversationId = "undefined"
           \/ Trim(input) = <<>>
           \/ pc # "idle")
       => /\ UNCHANGED <<messages, streamingContent, input, isStreaming, pc, gen>>
          /\ hist'.requests = hist.requests]_vars

\* C8, witness: a call made with only white space in the input has returned
GuardClausesWitness ==
    /\ hist.rejected = "blank"
    /\ input = <<32>>
    /\ conversationId \in Convs
    /\ pc = "idle"

\* a message sendMessage made: its id comes from Date.now()
IsTemporary(m) == m.id >= Epoch

\* C9: after a stream that ended and a conversations.get that failed, the
\* assistant message appended at the end of the stream stays in the list until
\* the next send or route change.
ReconcileErrorKeepsAnswer ==
    (hist.outcome = "reconcileError" /\ ~hist.switched) =>
        \E i \in DOMAIN messages :
            messages[i].role = "assistant" /\ IsTemporary(messages[i])

\* the content of the last message of a role, <<-1>> when the list has none
RECURSIVE LastContent(_, _)
LastContent(list, role) ==
    IF list = <<>> THEN <<-1>>
    ELSE IF list[Len(list)].role = role THEN list[Len(list)].content
    ELSE LastContent(SubSeq(list, 1, Len(list) - 1), role)

\* C10: when conversations.get succeeds after a stream in the conversation that
\* stayed open, the list becomes the server's record, and the last user and
\* the last assistant message read the same before and after.
ReconciliationEquality ==
    [][(pc = "reconcile" /\ hist'.outcome = "reconciled" /\ ~hist.switched) =>
          /\ messages' = db[conversationId]
          /\ LastContent(messages', "user") = LastContent(messages, "user")
          /\ LastContent(messages', "assistant") = LastContent(messages, "assistant")]_vars

\* C11: isStreaming, the gate, is released by the step in which an accepted
\* send returns, on every way out, by no other step, and never while the
\* stream or conversations.get of the send is pending.
GateReleasedOnExit ==
    [][/\ (pc # "idle" /\ pc' = "idle") => (isStreaming /\ ~isStreaming')
       /\ (isStreaming /\ ~isStreaming') => (pc # "idle" /\ pc' = "idle")
       /\ pc' # "idle" => isStreaming']_vars

\* C11, witness: a send has returned after the route changed during it and
\* conversations.get failed, and the gate is open
GateReleasedOnExitWitness ==
    /\ hist.outcome = "reconcileError"
    /\ hist.switched
    /\ pc = "idle"
    /\ ~isStreaming

\* C12: after a chat request that failed the page shows an error message.
FailureSurfaced == hist.outcome = "chatError" => Rendered.error # <<>>

\* C13: for a response that is not ok chat.send yields nothing and throws an
\* error whose message is the detail of the body when it has one and 'Chat
\* request failed' otherwise, also when the body is not a JSON object.
FailureWireFormat ==
    (gen = "thrown" /\ response.status = "failed") =>
        /\ yielded = <<>>
        /\ error.message = IF response.body = "detail" THEN <<110, 111>> ELSE ChatFailedText

\* C14: while another conversation than the one a send was started on is open,
\* a step of that send's stream leaves the streaming content as it is.
StaleDeltasNotShown ==
    [][(/\ pc = "stream"
        /\ conversationId # callConversationId
        /\ conversationId' = conversationId)
       => streamingContent' = streamingContent]_vars

\* C15: loadedConversationIdRef is null or the open conversation.
IdentityGuardInvariant == loadedConversationIdRef \in {"null", conversationId}

\* C16: when conversations.get fails after the stream and the route did not
\* change, the user message of the send is still in the list, followed by the
\* temporary assistant message.
ReconcileErrorKeepsUser ==
    [][(pc = "reconcile" /\ hist'.outcome = "reconcileError" /\ ~hist.switched) =>
          \E i \in DOMAIN messages' :
              /\ messages'[i].id = userMessageId
              /\ messages'[i].role = "user"
              /\ i < Len(messages')
              /\ messages'[i + 1].role = "assistant"
              /\ IsTemporary(messages'[i + 1])]_vars

\* C17: when the chat request fails after a delta was applied, the streaming
\* content is empty after the return and the list holds no temporary assistant
\* message.
RollbackClearsStreaming ==
    [][(pc = "stream" /\ pc' = "idle" /\ yielded # <<>>) =>
          /\ streamingContent' = <<>>
          /\ \A i \in DOMAIN messages' :
                ~(messages'[i].role = "assistant" /\ IsTemporary(messages'[i]))]_vars

\* the text `+=` appends for a delta
DeltaText(d) == IF d.defined THEN d.text ELSE UndefinedText

\* the deltas 1..k put together in the order they were yielded
DeltaConcat(ds, k) == Concat([i \in 1..k |-> DeltaText(ds[i])])

\* C18: without a route change, while the stream is read the streaming content
\* is the deltas yielded so far put together in order; when the stream has
\* ended the last message is the temporary assistant message with all deltas
\* as its content and the streaming content is empty.
DeltaOrderAndCompleteness ==
    /\ (pc = "stream" /\ ~hist.switched) =>
          streamingContent = DeltaConcat(yielded, Len(yielded))
    /\ (pc = "reconcile" /\ ~hist.switched) =>
          /\ streamingContent = <<>>
          /\ messages # <<>>
          /\ messages[Len(messages)].role = "assistant"
          /\ IsTemporary(messages[Len(messages)])
          /\ messages[Len(messages)].content = DeltaConcat(yielded, Len(yielded))

\* C18, witness: a stream that gave two deltas in two turns has ended, the
\* route unchanged
DeltaOrderAndCompletenessWitness ==
    /\ pc = "reconcile"
    /\ ~hist.switched
    /\ Len(yielded) = 2
    /\ yielded[1] # yielded[2]
    /\ sent = <<"a", "ni", "done">>
    /\ wire = <<>>

\* C19: while a send is running, whenever its answer is shown, as streaming
\* content or as its temporary assistant message, its user message is in the
\* list before it.
UserBeforeAssistant ==
    pc # "idle" =>
        /\ (isStreaming /\ streamingContent # <<>>) =>
              \E i \in DOMAIN messages : messages[i].id = userMessageId
                                          /\ messages[i].role = "user"
        /\ \A j \in DOMAIN messages :
              (/\ pc = "reconcile"
               /\ messages[j].role = "assistant"
               /\ IsTemporary(messages[j])
               /\ messages[j].content = fullContent) =>
                  \E i \in 1..(j - 1) : messages[i].id = userMessageId
                                         /\ messages[i].role = "user"

\* the places of the list that hold a message sendMessage made, of a role
Temporaries(role) ==
    {i \in DOMAIN messages : messages[i].role = role /\ IsTemporary(messages[i])}

\* C20: the list holds at most one temporary user message, the one of the
\* running send, and at most one temporary assistant message.
OptimisticBound ==
    /\ Cardinality(Temporaries("user")) <= 1
    /\ Cardinality(Temporaries("assistant")) <= 1
    /\ \A i \in Temporaries("user") : pc # "idle" /\ messages[i].id = userMessageId

\* C21: in a send during which the route did not change, the list is replaced
\* by the record conversations.get returned only when the temporary assistant
\* message is its last message, and after that step the list is that record
\* and holds no message with a temporary id.
AuthoritativeReplacement ==
    [][(pc # "idle" /\ hist'.outcome = "reconciled" /\ ~hist.switched) =>
          /\ pc = "reconcile"
          /\ messages # <<>>
          /\ messages[Len(messages)] \in
                {Message(id, callConversationId, "assistant", fullContent) :
                   id \in Epoch + 1 .. Epoch + MaxTicks + 2}
          /\ messages' = db[callConversationId]
          /\ \A i \in DOMAIN messages' : ~IsTemporary(messages'[i])]_vars

\* C21, witness: conversations.get has resolved in the conversation the send
\* was made in, and the list is the record with the stored question and answer
AuthoritativeReplacementWitness ==
    /\ hist.outcome = "reconciled"
    /\ ~hist.switched
    /\ pc = "idle"
    /\ conversationId \in Convs
    /\ Len(messages) = 3
    /\ messages = db[conversationId]
    /\ messages[2].role = "user" /\ messages[3].role = "assistant"

\* C22: when reader.read() resolves with done and the body held no terminal
\* frame, chat.send ends without an error and sendMessage goes on as after the
\* terminal frame: it appends the assistant message with the content so far,
\* empties the streaming content and awaits conversations.get, the gate held
\* and nothing removed from the list.
NaturalClose ==
    [][(hist'.closed /\ ~hist.closed) =>
          /\ FromDone(sent) = <<>>
          /\ gen' = "done"
          /\ error' = NoError
          /\ pc' = "reconcile"
          /\ hist'.outcome = "none"
          /\ isStreaming'
          /\ streamingContent' = <<>>
          /\ messages' \in
                {Append(messages, Message(id, callConversationId, "assistant", fullContent)) :
                   id \in Epoch + 1 .. Epoch + MaxTicks + 2}]_vars

\* C22, witness: the body of a frame and an object without content has been
\* read to its end, and the send awaits conversations.get
NaturalCloseWitness ==
    /\ hist.closed
    /\ pc = "reconcile"
    /\ sent = <<"a", "obj">>
    /\ gen = "done"
    /\ messages # <<>>
    /\ messages[Len(messages)].role = "assistant"
    /\ IsTemporary(messages[Len(messages)])

\* C23: a route change during a send leaves the call, its request and its
\* stream as they are, and when every promise the send awaits settles, the
\* call returns and the gate is released.
SwitchDoesNotCancel ==
    /\ [][(pc # "idle" /\ conversationId' # conversationId) =>
             UNCHANGED <<pc, isStreaming, callConversationId, userMessageId, messageContent,
                         fullContent, sent, wire, decoder, buffer, gen, yielded, response,
                         error>>]_vars
    /\ (pc # "idle" /\ hist.switched) ~> (pc = "idle" /\ ~isStreaming)

\* C23, witness: the route changed while the body was being read, the rest of
\* the body was read after that, and the call has returned
SwitchDoesNotCancelWitness ==
    /\ hist.switched
    /\ hist.outcome \in {"reconciled", "reconcileError"}
    /\ conversationId \in Convs
    /\ pc = "idle"
    /\ ~isStreaming

\* C24: isStreaming is one flag for all conversations: while a send is running
\* and another conversation than its own is open, a call of sendMessage
\* returns at once, issues no request and changes nothing; once the send has
\* returned no call is turned away because of the gate.
SharedGate ==
    [][/\ (pc # "idle" /\ conversationId # callConversationId /\ SendCalled) =>
            /\ hist'.requests = hist.requests
            /\ hist'.rejected \in {"blank", "streaming"}
            /\ Trim(input) # <<>> => hist'.rejected = "streaming"
            /\ UNCHANGED <<pageVars, sent, wire, decoder, buffer, gen, yielded, response,
                           error>>
       /\ (pc = "idle" /\ SendCalled) => hist'.rejected # "streaming"]_vars

\* C24, witness: with a send of one conversation running, a call made with
\* text in the input in the other conversation has returned at once
SharedGateWitness ==
    /\ pc # "idle"
    /\ conversationId \in Convs
    /\ callConversationId \in Convs
    /\ conversationId # callConversationId
    /\ Trim(input) # <<>>
    /\ hist.rejected = "streaming"
    /\ hist.cycleRequests = 1

\* C25: when a send returns, however it ends, while another conversation than
\* its own is open and the detail of that conversation has been fetched, the
\* list becomes the fetched messages of the open conversation and
\* loadedConversationIdRef the open conversation; when the detail is fetched
\* only after the return, they become so then.
ConvergenceAfterSwitch ==
    [][/\ (/\ pc # "idle" /\ pc' = "idle"
           /\ conversationId \in Convs
           /\ conversationId # callConversationId
           /\ queryData[conversationId].loaded) =>
              /\ ~isStreaming'
              /\ messages' = queryData[conversationId].messages
              /\ loadedConversationIdRef' = conversationId
       /\ (/\ pc = "idle" /\ hist.switched
           /\ conversationId' = conversationId
           /\ conversationId \in Convs
           /\ ~queryData[conversationId].loaded
           /\ queryData'[conversationId].loaded) =>
              /\ messages' = queryData'[conversationId].messages
              /\ loadedConversationIdRef' = conversationId]_vars

\* C26: the arrival of a conversation detail leaves the list as it is while
\* isStreaming is true and when loadedConversationIdRef is the open
\* conversation; in those states the list changes only in a step of
\* sendMessage (the call, the end of its stream, its return) or by a route
\* change.
NoOverwriteByDetail ==
    [][(isStreaming \/ loadedConversationIdRef = conversationId) =>
          /\ queryData' # queryData => messages' = messages
          /\ messages' # messages => (pc' # pc \/ conversationId' # conversationId)]_vars

\* C26, witness: during a send the detail of its conversation was fetched
\* again, with the stored exchange, and the list is still the one of the send
NoOverwriteByDetailWitness ==
    /\ isStreaming
    /\ conversationId \in Convs
    /\ conversationId = callConversationId
    /\ loadedConversationIdRef = conversationId
    /\ Len(db[conversationId]) = 3
    /\ queryData[conversationId] = [loaded |-> TRUE, messages |-> db[conversationId]]
    /\ messages # queryData[conversationId].messages
    /\ \E i \in DOMAIN messages : messages[i].id = userMessageId

\* the lines of a body but the last
Front(ks) == SubSeq(ks, 1, Len(ks) - 1)

\* C27: on a body whose last line has no newline, that line is never handled:
\* what is yielded comes from the lines before it, when the body has been read
\* the line is in the buffer, and when read() resolves with done the generator
\* ends with the line still there, whether it is a content frame or the
\* terminal frame.
TrailingPartialLine ==
    response = OpenResponse =>
        \A whole \in {FrameDeltas(Front(sent))} :
            /\ Len(yielded) <= Len(whole)
            /\ yielded = SubSeq(whole, 1, Len(yielded))
            /\ gen = "done" => yielded = whole
            /\ (FromDone(Front(sent)) = <<>> /\ wire = <<>>) =>
                  buffer = LineText(sent[Len(sent)])
            /\ (FromDone(Front(sent)) = <<>> /\ gen = "done") => wire = <<>>

\* C27, witness: a body of two content frames, the second without newline, has
\* been read to its end in chunks: one delta, the second frame in the buffer
TrailingPartialLineWitness ==
    /\ response = OpenResponse
    /\ gen = "done"
    /\ sent = <<"a", "ni">>
    /\ hist.midLine
    /\ yielded = <<Str(<<97>>)>>
    /\ buffer = LineText("ni")

\* C28: when the stream ends and nothing was yielded, after the terminal frame
\* or at the end of the body, sendMessage appends an assistant message with
\* empty content and awaits conversations.get: the gate stays held, nothing is
\* removed from the list, and with the route unchanged the user message of the
\* send is in the list before the assistant message.
EmptyAnswerAppended ==
    [][(pc = "stream" /\ pc' # "stream" /\ gen = "read" /\ gen' = "done" /\ yielded' = <<>>) =>
          /\ pc' = "reconcile"
          /\ hist'.outcome = "none"
          /\ isStreaming'
          /\ streamingContent' = <<>>
          /\ messages' \in
                {Append(messages, Message(id, callConversationId, "assistant", <<>>)) :
                   id \in Epoch + 1 .. Epoch + MaxTicks + 2}
          /\ ~hist.switched =>
                \E i \in 1..Len(messages) :
                    messages'[i].id = userMessageId /\ messages'[i].role = "user"]_vars

\* C28, witness: the body was the terminal frame alone, nothing was yielded,
\* and the send awaits conversations.get with the empty assistant message last
EmptyAnswerAppendedWitness ==
    /\ pc = "reconcile"
    /\ sent = <<"done">>
    /\ yielded = <<>>
    /\ ~hist.switched
    /\ Len(messages) >= 2
    /\ messages[Len(messages)].role = "assistant"
    /\ messages[Len(messages)].content = <<>>
    /\ IsTemporary(messages[Len(messages)])
    /\ messages[Len(messages) - 1].id = userMessageId

\* C29: a route change to a conversation whose detail is not loaded by the
\* load-messages effect of the same step empties the list and the streaming
\* content and sets loadedConversationIdRef to null; and as long as
\* loadedConversationIdRef is not the open conversation, the list holds no
\* message of another conversation.
SwitchReset ==
    /\ [][(/\ conversationId' # conversationId
            /\ ~(/\ queryData[conversationId'].loaded
                  /\ ~isStreaming
                  /\ loadedConversationIdRef # conversationId')) =>
              /\ messages' = <<>>
              /\ streamingContent' = <<>>
              /\ loadedConversationIdRef' = "null"]_vars
    /\ [](loadedConversationIdRef # conversationId =>
            \A i \in DOMAIN messages : messages[i].conversation_id = conversationId)

====
